---- MODULE Spec2Model ----
(***************************************************************************)
(* Model of the typed remote-memory access layer of cs2/src/handle.rs:     *)
(* CS2Handle (the session), the two MemoryHandle implementations           *)
(* CSMemoryHandleCached (snapshot) and CSMemoryHandleReference (live), and *)
(* the kernel interface they talk to.                                      *)
(*                                                                         *)
(* u64/usize values are kept at their full 64 bit width as four 16 bit     *)
(* limbs, most significant first, so that values next to 2^64 exist in the *)
(* model.  Lengths of buffers are plain naturals.                          *)
(***************************************************************************)
EXTENDS Integers, Sequences, FiniteSets, TLC

VARIABLES
    mem,          \* remote process memory: the explicitly modelled bytes
    fill,         \* the byte every other mapped remote address holds
    build,        \* "debug" (overflow-checks on) or "release" (wrapping)
    module_info,  \* CS2Handle.module_info
    alive,        \* a strong Arc<CS2Handle> still exists
    view,         \* the Arc<dyn MemoryHandle> the caller holds
    last,         \* the call the caller is looking at: its arguments and result
    chan,         \* the kernel requests the last call issued, in order
    rs,           \* read_string's frame: its locals and position in the loop
    cr,           \* CS2Handle::create's frame
    rf            \* reference_schema's frame between its two kernel requests

vars == <<mem, fill, build, module_info, alive, view, last, chan, rs, cr, rf>>

(***************************************************************************)
(* Bounds of the model.                                                    *)
(***************************************************************************)
MemSize == 40          \* remote bytes modelled one by one
MappedKiB == 128       \* size of the mapped remote region, in KiB
MaxStrRead == 32       \* read_string's loop is followed up to this guess

MappedSize == MappedKiB * 1024

(***************************************************************************)
(* 64 bit unsigned integers.                                               *)
(***************************************************************************)
LimbBase == 2^16

U64FromNat(n) == <<0, 0, n \div LimbBase, n % LimbBase>>

U64_MAX == <<LimbBase - 1, LimbBase - 1, LimbBase - 1, LimbBase - 1>>

U64Zero == U64FromNat(0)

\* The mathematical sum of a and b, limb by limb: the four limbs of the
\* wrapped sum and the carry out of the top limb.
U64AddFull(a, b) ==
    LET s4 == a[4] + b[4]
        s3 == a[3] + b[3] + (s4 \div LimbBase)
        s2 == a[2] + b[2] + (s3 \div LimbBase)
        s1 == a[1] + b[1] + (s2 \div LimbBase)
    IN  [sum   |-> <<s1 % LimbBase, s2 % LimbBase, s3 % LimbBase, s4 % LimbBase>>,
         carry |-> s1 \div LimbBase]

U64AddWrapping(a, b) == U64AddFull(a, b).sum

U64AddOverflows(a, b) == U64AddFull(a, b).carry > 0

U64Less(a, b) ==
    \E i \in 1..4 : a[i] < b[i] /\ \A j \in 1..(i - 1) : a[j] = b[j]

U64LessEq(a, b) == a = b \/ U64Less(a, b)

\* u64::wrapping_sub
U64SubWrapping(a, b) ==
    LET d4 == a[4] - b[4]
        w4 == IF d4 < 0 THEN 1 ELSE 0
        d3 == a[3] - b[3] - w4
        w3 == IF d3 < 0 THEN 1 ELSE 0
        d2 == a[2] - b[2] - w3
        w2 == IF d2 < 0 THEN 1 ELSE 0
        d1 == a[1] - b[1] - w2
    IN  <<d1 % LimbBase, d2 % LimbBase, d3 % LimbBase, d4 % LimbBase>>

\* A value small enough to be a natural of the model.
U64IsSmall(a) == a[1] = 0 /\ a[2] = 0 /\ a[3] <= (MappedSize \div LimbBase) + 1

U64ToNat(a) == a[3] * LimbBase + a[4]

(***************************************************************************)
(* Results of Rust calls: Ok(v), Err(e) and a panic.                       *)
(***************************************************************************)
Ok(v) == [tag |-> "ok", val |-> v]

Err(m) == [tag |-> "err", msg |-> m]

Panic(m) == [tag |-> "panic", msg |-> m]

None == [some |-> FALSE]

Some(v) == [some |-> TRUE, val |-> v]

(***************************************************************************)
(* Byte strings (Vec<u8>, &[u8]).  A read of 64 KiB returns 64 KiB: a byte *)
(* string is kept as its bytes up to its last run, and that run as a       *)
(* length and a byte: head \o <<b, ..., b>> (n times).  The last run is    *)
(* always the longest possible one, so equal strings are equal records.    *)
(***************************************************************************)
EmptyBytes == [head |-> <<>>, n |-> 0, b |-> 0]

RECURSIVE Absorb(_, _, _)
Absorb(h, n, b) ==
    IF h # <<>> /\ h[Len(h)] = b
    THEN Absorb(SubSeq(h, 1, Len(h) - 1), n + 1, b)
    ELSE [head |-> h, n |-> n, b |-> b]

\* The byte string h \o <<b, ..., b>> (n times).
Bytes(h, n, b) ==
    IF n > 0 THEN Absorb(h, n, b)
    ELSE IF h = <<>> THEN EmptyBytes
    ELSE Absorb(SubSeq(h, 1, Len(h) - 1), 1, h[Len(h)])

BytesOf(h) == Bytes(h, 0, 0)

BLen(x) == Len(x.head) + x.n

BAt(x, i) == IF i <= Len(x.head) THEN x.head[i] ELSE x.b

Min(a, b) == IF a < b THEN a ELSE b

Max(a, b) == IF a < b THEN b ELSE a

\* x[from - 1 .. to] in Rust's terms: the bytes at positions from..to, 1-based.
BSub(x, from, to) ==
    Bytes(SubSeq(x.head, from, Min(to, Len(x.head))),
          Max(0, to - Max(from - 1, Len(x.head))),
          x.b)

\* Position of the first byte equal to c, 0 when there is none.
BFind(x, c) ==
    IF \E i \in 1..Len(x.head) : x.head[i] = c
    THEN CHOOSE i \in 1..Len(x.head) :
            x.head[i] = c /\ \A j \in 1..(i - 1) : x.head[j] # c
    ELSE IF x.n > 0 /\ x.b = c THEN Len(x.head) + 1
    ELSE 0

(***************************************************************************)
(* Remote memory: MemSize bytes modelled one by one, then `fill` up to the *)
(* end of the mapped region.                                               *)
(***************************************************************************)
MemByte(a) == IF a < MemSize THEN mem[a] ELSE fill

\* len bytes at address a lie in the mapped region.
Mapped(a, len) == U64IsSmall(a) /\ U64ToNat(a) + len <= MappedSize

\* The len bytes at the natural address a.
BytesAt(a, len) ==
    Bytes([i \in 1..Min(len, Max(0, MemSize - a)) |-> mem[a + i - 1]],
          len - Min(len, Max(0, MemSize - a)),
          fill)

RemoteBytes(a, len) == BytesAt(U64ToNat(a), len)

\* A little-endian u64 out of 8 bytes.
U64FromLeBytes(x) ==
    <<BAt(x, 7) + 256 * BAt(x, 8), BAt(x, 5) + 256 * BAt(x, 6),
      BAt(x, 3) + 256 * BAt(x, 4), BAt(x, 1) + 256 * BAt(x, 2)>>

\* The 8 little-endian bytes of a natural below 2^24.
U64ToLeBytes(n) ==
    <<n % 256, (n \div 256) % 256, (n \div 65536) % 256, 0, 0, 0, 0, 0>>

(***************************************************************************)
(* The kernel interface.                                                   *)
(***************************************************************************)
\* Walk of an offset chain from address 0: every element but the last is
\* added and the sum dereferenced as a u64; the last is only added.
\* One dereference: p is the walk so far.
KeStep(p, offset) ==
    IF ~p.ok THEN p
    ELSE IF ~Mapped(U64AddWrapping(p.addr, offset), 8)
    THEN [ok |-> FALSE, addr |-> U64AddWrapping(p.addr, offset),
          derefs |-> Append(p.derefs, U64AddWrapping(p.addr, offset))]
    ELSE [ok |-> TRUE,
          addr |-> U64FromLeBytes(RemoteBytes(U64AddWrapping(p.addr, offset), 8)),
          derefs |-> Append(p.derefs, U64AddWrapping(p.addr, offset))]

\* The walk after the first i elements were dereferenced.
RECURSIVE KeWalk(_, _)
KeWalk(offsets, i) ==
    IF i = 0
    THEN [ok |-> TRUE, addr |-> U64Zero, derefs |-> <<>>]
    ELSE KeStep(KeWalk(offsets, i - 1), offsets[i])

KeFinish(w, offset) ==
    [ok     |-> w.ok,
     addr   |-> IF w.ok THEN U64AddWrapping(w.addr, offset) ELSE w.addr,
     derefs |-> w.derefs]

KeResolve(offsets) ==
    KeFinish(KeWalk(offsets, Len(offsets) - 1), offsets[Len(offsets)])

\* The response to a read of len bytes at the resolved chain r, and the
\* request as the channel saw it.
KeRespond(r, offsets, len) ==
    [ok    |-> r.ok /\ Mapped(r.addr, len),
     bytes |-> IF r.ok /\ Mapped(r.addr, len) THEN RemoteBytes(r.addr, len) ELSE EmptyBytes,
     req   |-> [kind |-> "read", offsets |-> offsets, len |-> len,
                derefs |-> r.derefs, addr |-> r.addr,
                resolved |-> r.ok, ok |-> r.ok /\ Mapped(r.addr, len)]]

\* KernelInterface::read_slice / read / read_vec: one chained read request.
KeReadSlice(offsets, len) == KeRespond(KeResolve(offsets), offsets, len)

(***************************************************************************)
(* Module and the module table.                                            *)
(***************************************************************************)
Module == {"Absolute", "Client", "Engine", "Schemasystem"}

EMPTY_MODULE_INFO == [base_address |-> U64Zero, module_size |-> U64_MAX]

get_base_offset(module) ==
    Some(CASE module = "Absolute"     -> EMPTY_MODULE_INFO
           [] module = "Client"       -> module_info.client
           [] module = "Engine"       -> module_info.engine
           [] module = "Schemasystem" -> module_info.schemasystem)

(***************************************************************************)
(* u64 `+` as the build compiles it: a panic on overflow with              *)
(* overflow-checks (debug), the wrapped sum without (release).             *)
(***************************************************************************)
AddPanics(a, b) == build = "debug" /\ U64AddOverflows(a, b)

OverflowPanic == Panic("attempt to add with overflow")

\* The result of a call that has not returned yet.
Running == [tag |-> "running"]

\* What a call hands back: its result and the kernel requests it issued.
Ret(res, reqs) == [res |-> res, reqs |-> reqs]

\* `r?` followed by K: a failure (or a panic) of r ends the call.
Try(r, K(_)) == IF r.res.tag = "ok" THEN K(r) ELSE r

\* r, after the requests reqs were issued before it.
After(reqs, r) == Ret(r.res, reqs \o r.reqs)

(***************************************************************************)
(* CS2Handle: the raw reads.                                               *)
(***************************************************************************)
\* let mut offsets = offsets.to_vec(); offsets[0] += base_address (the right
\* operand, with its `?`, is evaluated before the indexing).
AddBaseToFirst(module, offsets) ==
    LET bo == get_base_offset(module)
    IN  IF ~bo.some THEN Ret(Err("invalid module"), <<>>)
        ELSE IF Len(offsets) = 0 THEN Ret(Panic("index out of bounds"), <<>>)
        ELSE IF AddPanics(offsets[1], bo.val.base_address) THEN Ret(OverflowPanic, <<>>)
        ELSE Ret(Ok([offsets EXCEPT ![1] = U64AddWrapping(@, bo.val.base_address)]), <<>>)

\* The kernel's answer k with its `?`.
KeResult(k) ==
    Ret(IF k.ok THEN Ok(k.bytes) ELSE Err("kernel read failed"), <<k.req>>)

ChainedRead(module, offsets, len) ==
    Try(AddBaseToFirst(module, offsets),
        LAMBDA o : KeResult(KeReadSlice(o.res.val, len)))

\* read::<T>, with size_of::<T>() = size: the bytes of the value.
CS2_read(module, offsets, size) == ChainedRead(module, offsets, size)

CS2_read_slice(module, offsets, len) == ChainedRead(module, offsets, len)

CS2_read_vec(module, offsets, length) == ChainedRead(module, offsets, length)

(***************************************************************************)
(* The two memory handles, as values.                                      *)
(***************************************************************************)
CSMemoryHandleCached(buffer) == [kind |-> "cached", buffer |-> buffer]

CSMemoryHandleReference(address) == [kind |-> "reference", address |-> address]

HandleDropped == Err("cs2 handle has been dropped")

\* Weak<CS2Handle>::upgrade
Upgrade == alive

CS2_read_memory(offsets, size) ==
    Try(CS2_read_slice("Absolute", offsets, size),
        LAMBDA r : Ret(Ok(CSMemoryHandleCached(r.res.val)), r.reqs))

SnapshotLimit == 65535

\* reference_memory with `<` for `<=`.
CS2_reference_memory_Strict(address, size) ==
    IF size.some /\ size.val < SnapshotLimit
    THEN CS2_read_memory(<<address>>, size.val)
    ELSE Ret(Ok(CSMemoryHandleReference(address)), <<>>)

CS2_reference_memory(address, size) ==
    IF size.some /\ size.val <= SnapshotLimit
    THEN CS2_read_memory(<<address>>, size.val)
    ELSE Ret(Ok(CSMemoryHandleReference(address)), <<>>)

(***************************************************************************)
(* impl MemoryHandle for CSMemoryHandleCached                              *)
(***************************************************************************)
Cached_read_slice(self, offset, len) ==
    LET s    == U64AddFull(offset, U64FromNat(len))
        blen == U64FromNat(BLen(self.buffer))
    IN  IF s.carry > 0 /\ build = "debug" THEN Ret(OverflowPanic, <<>>)
        ELSE IF U64Less(blen, s.sum) THEN Ret(Err("invalid offset"), <<>>)
        ELSE IF U64Less(s.sum, offset)
        THEN Ret(Panic("slice index starts after its end"), <<>>)
        ELSE Ret(Ok(BSub(self.buffer, U64ToNat(offset) + 1, U64ToNat(s.sum))), <<>>)

Cached_reference_memory(self, address, length) ==
    IF ~Upgrade THEN Ret(HandleDropped, <<>>)
    ELSE CS2_reference_memory(address, length)

Cached_read_memory(self, address, length) ==
    IF ~Upgrade THEN Ret(HandleDropped, <<>>)
    ELSE CS2_read_memory(<<address>>, length)

(***************************************************************************)
(* impl MemoryHandle for CSMemoryHandleReference                           *)
(***************************************************************************)
\* read_slice that reads without upgrading its weak reference first.
Reference_read_slice_NoUpgrade(self, offset, len) ==
    IF AddPanics(self.address, offset) THEN Ret(OverflowPanic, <<>>)
    ELSE CS2_read_slice("Absolute", <<U64AddWrapping(self.address, offset)>>, len)

Reference_read_slice(self, offset, len) ==
    IF ~Upgrade THEN Ret(HandleDropped, <<>>)
    ELSE IF AddPanics(self.address, offset) THEN Ret(OverflowPanic, <<>>)
    ELSE CS2_read_slice("Absolute", <<U64AddWrapping(self.address, offset)>>, len)

Reference_reference_memory(self, address, length) ==
    IF ~Upgrade THEN Ret(HandleDropped, <<>>)
    ELSE CS2_reference_memory(address, length)

Reference_read_memory(self, address, length) ==
    IF ~Upgrade THEN Ret(HandleDropped, <<>>)
    ELSE CS2_read_memory(<<address>>, length)

\* Calls through Arc<dyn MemoryHandle>.
Dyn_read_slice(self, offset, len) ==
    IF self.kind = "cached" THEN Cached_read_slice(self, offset, len)
    ELSE Reference_read_slice(self, offset, len)

Dyn_reference_memory(self, address, length) ==
    IF self.kind = "cached" THEN Cached_reference_memory(self, address, length)
    ELSE Reference_reference_memory(self, address, length)

Dyn_read_memory(self, address, length) ==
    IF self.kind = "cached" THEN Cached_read_memory(self, address, length)
    ELSE Reference_read_memory(self, address, length)

(***************************************************************************)
(* CS2Handle: the schema entry points.  A schema value is the memory       *)
(* handle it was built over and the offset of the value in it; each        *)
(* member accessor is a read_slice on that handle.                         *)
(***************************************************************************)
SchemaFromMemory(memory, offset) == Ok([memory |-> memory, offset |-> offset])

\* read_schema reading relative to the client module.
CS2_read_schema_ClientRelative(offsets, value_size) ==
    IF ~value_size.some THEN Ret(Err("schema must have a size"), <<>>)
    ELSE Try(CS2_read_slice("Client", offsets, value_size.val),
             LAMBDA r : Ret(SchemaFromMemory(CSMemoryHandleCached(r.res.val), U64Zero),
                            r.reqs))

CS2_read_schema(offsets, value_size) ==
    IF ~value_size.some THEN Ret(Err("schema must have a size"), <<>>)
    ELSE Try(CS2_read_memory(offsets, value_size.val),
             LAMBDA m : Ret(SchemaFromMemory(m.res.val, U64Zero), m.reqs))

\* base + offsets[offsets.len() - 1], base being the u64 just read.
AddLastOffset(base, offset, reqs) ==
    IF AddPanics(base, offset) THEN Ret(OverflowPanic, reqs)
    ELSE Ret(Ok(U64AddWrapping(base, offset)), reqs)

\* The address without the last offset added.
ReferenceSchemaAddress_NoLastOffset(offsets) ==
    IF Len(offsets) = 1 THEN Ret(Ok(offsets[1]), <<>>)
    ELSE IF Len(offsets) = 0
    THEN Ret(Panic("offsets.len() - 1 underflows"), <<>>)
    ELSE Try(CS2_read("Absolute", SubSeq(offsets, 1, Len(offsets) - 1), 8),
             LAMBDA b : Ret(Ok(U64FromLeBytes(b.res.val)), b.reqs))

\* The address reference_schema wraps.
ReferenceSchemaAddress(offsets) ==
    IF Len(offsets) = 1 THEN Ret(Ok(offsets[1]), <<>>)
    ELSE IF Len(offsets) = 0
    THEN Ret(Panic("offsets.len() - 1 underflows"), <<>>)
    ELSE Try(CS2_read("Absolute", SubSeq(offsets, 1, Len(offsets) - 1), 8),
             LAMBDA b : AddLastOffset(U64FromLeBytes(b.res.val),
                                      offsets[Len(offsets)], b.reqs))

\* T::from_memory(self.reference_memory(address, T::value_size())?, 0x00)
ReferenceSchemaWrap(address, value_size) ==
    Try(CS2_reference_memory(address, value_size),
        LAMBDA m : Ret(SchemaFromMemory(m.res.val, U64Zero), m.reqs))

CS2_reference_schema(offsets, value_size) ==
    Try(ReferenceSchemaAddress(offsets),
        LAMBDA a : After(a.reqs, ReferenceSchemaWrap(a.res.val, value_size)))

(***************************************************************************)
(* States the runs start from.                                             *)
(***************************************************************************)
\* A remote image of three chained pointers (0 -> 8 -> 16 -> 24) followed by
\* the text "abc\0" and letters.
ChainImage ==
    [a \in 0..(MemSize - 1) |->
        IF a < 24 THEN U64ToLeBytes(8 * (a \div 8) + 8)[(a % 8) + 1]
        ELSE IF a = 24 THEN 97
        ELSE IF a = 25 THEN 98
        ELSE IF a = 26 THEN 99
        ELSE IF a = 27 THEN 0
        ELSE 100 + (a % 8)]

ModuleTable ==
    [process_id   |-> 1,
     client       |-> [base_address |-> U64FromNat(8),  module_size |-> U64FromNat(16)],
     engine       |-> [base_address |-> U64FromNat(16), module_size |-> U64FromNat(16)],
     schemasystem |-> [base_address |-> U64FromNat(0),  module_size |-> U64FromNat(8)]]

NoCall == [op |-> "none"]

Idle == [pc |-> "idle"]

\* An attached session over the image, the caller holding nothing.
Attached(image) ==
    /\ mem = image
    /\ fill = 0
    /\ build \in {"debug", "release"}
    /\ module_info = ModuleTable
    /\ alive = TRUE
    /\ view = None
    /\ last = NoCall
    /\ chan = <<>>
    /\ rs = Idle
    /\ cr = Idle
    /\ rf = Idle

\* The caller is done with the result of its last call.
Forget ==
    /\ last # NoCall
    /\ rs.pc \in {"idle", "done"}
    /\ cr.pc \in {"idle", "done"}
    /\ rf.pc \in {"idle", "done"}
    /\ last' = NoCall
    /\ chan' = <<>>
    /\ rs' = Idle
    /\ rf' = Idle
    /\ UNCHANGED <<mem, fill, build, module_info, alive, view, cr>>

(***************************************************************************)
(* Calls on CS2Handle.                                                     *)
(***************************************************************************)
Call(op, module, offsets, size, r) ==
    /\ last = NoCall
    /\ alive
    /\ last' = [op |-> op, module |-> module, offsets |-> offsets,
                size |-> size, res |-> r.res]
    /\ chan' = r.reqs

Read(module, offsets, size) ==
    /\ Call("read", module, offsets, size, CS2_read(module, offsets, size))
    /\ UNCHANGED <<mem, fill, build, module_info, alive, view, rs, cr, rf>>

ReadSlice(module, offsets, len) ==
    /\ Call("read_slice", module, offsets, len, CS2_read_slice(module, offsets, len))
    /\ UNCHANGED <<mem, fill, build, module_info, alive, view, rs, cr, rf>>

ReadVec(module, offsets, length) ==
    /\ Call("read_vec", module, offsets, length, CS2_read_vec(module, offsets, length))
    /\ UNCHANGED <<mem, fill, build, module_info, alive, view, rs, cr, rf>>

\* The memory handle a caller keeps: the handle, the call that made it and
\* the remote address its window starts at.
Held(handle, origin, reqs) ==
    [some |-> TRUE, val |-> handle, origin |-> origin,
     at |-> IF handle.kind = "reference" THEN handle.address
            ELSE reqs[Len(reqs)].addr]

\* read_schema; with keep, the caller keeps the value (its memory handle).
ReadSchema(offsets, value_size, keep) ==
    \E r \in {CS2_read_schema(offsets, value_size)} :
        /\ Call("read_schema", "Absolute", offsets, value_size, r)
        /\ view' = IF keep /\ r.res.tag = "ok"
                   THEN Held(r.res.val.memory, "read_schema", r.reqs)
                   ELSE view
        /\ UNCHANGED <<mem, fill, build, module_info, alive, rs, cr, rf>>

\* reference_schema up to the answer of its first kernel request.  A chain
\* of two or more offsets has its address read from the target first
\* (self.read::<u64>): the call then waits at rf for reference_memory, the
\* target running in between.  Otherwise the call returns here.
ReferenceSchema(offsets, value_size, keep) ==
    \E a \in {ReferenceSchemaAddress(offsets)} :
        IF a.res.tag = "ok" /\ a.reqs # <<>>
        THEN /\ Call("reference_schema", "Absolute", offsets, value_size,
                     Ret(Running, a.reqs))
             /\ rf' = [pc |-> "address", address |-> a.res.val,
                       value_size |-> value_size, keep |-> keep]
             /\ UNCHANGED <<mem, fill, build, module_info, alive, view, rs, cr>>
        ELSE \E r \in {CS2_reference_schema(offsets, value_size)} :
                /\ Call("reference_schema", "Absolute", offsets, value_size, r)
                /\ view' = IF keep /\ r.res.tag = "ok"
                           THEN Held(r.res.val.memory, "reference_schema", r.reqs)
                           ELSE view
                /\ UNCHANGED <<mem, fill, build, module_info, alive, rs, cr, rf>>

\* reference_schema goes on with reference_memory at the address it read.
ReferenceSchemaMemory ==
    /\ rf.pc = "address"
    /\ \E r \in {After(chan, ReferenceSchemaWrap(rf.address, rf.value_size))} :
        /\ last' = [last EXCEPT !.res = r.res]
        /\ chan' = r.reqs
        /\ view' = IF rf.keep /\ r.res.tag = "ok"
                   THEN Held(r.res.val.memory, "reference_schema", r.reqs)
                   ELSE view
        /\ rf' = [pc |-> "done"]
        /\ UNCHANGED <<mem, fill, build, module_info, alive, rs, cr>>

(***************************************************************************)
(* Chain runs: the raw and schema reads of CS2Handle over offset chains.   *)
(***************************************************************************)
MaxChain == 3

ChainOffsets == {U64FromNat(0), U64FromNat(1), U64FromNat(8)}

SeqsUpTo(S, n) == UNION {[1..k -> S] : k \in 0..n}

\* The chains over small offsets, and two that reach the top of the range.
Chains == SeqsUpTo(ChainOffsets, MaxChain) \cup {<<U64_MAX>>, <<U64Zero, U64_MAX>>}

ValueSizes == {1, 8}

OptValueSizes == {None} \cup {Some(n) : n \in ValueSizes}

InitChain == Attached(ChainImage)

NextChain ==
    \/ \E m \in Module, o \in Chains, n \in ValueSizes : Read(m, o, n)
    \/ \E m \in Module, o \in Chains, n \in ValueSizes : ReadSlice(m, o, n)
    \/ \E m \in Module, o \in Chains, n \in ValueSizes : ReadVec(m, o, n)
    \/ \E o \in Chains, n \in OptValueSizes : ReadSchema(o, n, FALSE)
    \/ \E o \in Chains, n \in OptValueSizes : ReferenceSchema(o, n, FALSE)
    \/ ReferenceSchemaMemory
    \/ Forget

SpecChain == InitChain /\ [][NextChain]_vars

(***************************************************************************)
(* View runs: a caller holding a memory handle, the target process         *)
(* changing its memory, the session being dropped.                         *)
(***************************************************************************)
ViewCall(op, arg, size, r) ==
    /\ last = NoCall
    /\ last' = [op |-> op, kind |-> view.val.kind, origin |-> view.origin,
                at |-> view.at, arg |-> arg, size |-> size,
                dropped |-> ~alive, res |-> r.res]
    /\ chan' = r.reqs

\* MemoryHandle::read_slice through the held handle: a member accessor of a
\* schema value is this call at the member's offset.
ViewReadSlice(offset, len) ==
    /\ view.some
    /\ ViewCall("view_read_slice", offset, len, Dyn_read_slice(view.val, offset, len))
    /\ UNCHANGED <<mem, fill, build, module_info, alive, view, rs, cr, rf>>

\* MemoryHandle::reference_memory; the caller keeps the handle it gets.
ViewReferenceMemory(address, length) ==
    /\ view.some
    /\ \E r \in {Dyn_reference_memory(view.val, address, length)} :
        /\ ViewCall("view_reference_memory", address, length, r)
        /\ view' = IF r.res.tag = "ok"
                   THEN Held(r.res.val, "reference_memory", r.reqs)
                   ELSE view
        /\ UNCHANGED <<mem, fill, build, module_info, alive, rs, cr, rf>>

ViewReadMemory(address, length) ==
    /\ view.some
    /\ \E r \in {Dyn_read_memory(view.val, address, length)} :
        /\ ViewCall("view_read_memory", address, length, r)
        /\ view' = IF r.res.tag = "ok"
                   THEN Held(r.res.val, "read_memory", r.reqs)
                   ELSE view
        /\ UNCHANGED <<mem, fill, build, module_info, alive, rs, cr, rf>>

\* The last Arc<CS2Handle> is dropped.
DropHandle ==
    /\ last = NoCall
    /\ alive
    /\ alive' = FALSE
    /\ UNCHANGED <<mem, fill, build, module_info, view, last, chan, rs, cr, rf>>

\* The target process writes a byte of its memory: between two calls, or
\* between two kernel requests of a call (reference_schema waiting for its
\* second one, read_string between two turns of its loop).
RemoteWrite(a, b) ==
    /\ last = NoCall \/ rf.pc = "address" \/ rs.pc = "loop"
    /\ mem[a] # b
    /\ mem' = [mem EXCEPT ![a] = b]
    /\ UNCHANGED <<fill, build, module_info, alive, view, last, chan, rs, cr, rf>>

ViewChains == {<<U64FromNat(24)>>, <<U64FromNat(8), U64FromNat(8)>>}

ViewOffsets == {U64FromNat(0), U64FromNat(1), U64FromNat(8), U64_MAX}

ViewLens == {0, 1, 8}

ViewAddresses == {U64FromNat(0), U64FromNat(24)}

ViewLengths == {8, SnapshotLimit, SnapshotLimit + 1}

OptViewLengths == {None} \cup {Some(n) : n \in ViewLengths}

WrittenAddresses == {8, 24}

WrittenBytes == {97, 122}

InitView == Attached(ChainImage)

NextView ==
    \/ \E o \in ViewChains, n \in OptValueSizes : ReadSchema(o, n, TRUE)
    \/ \E o \in ViewChains, n \in OptValueSizes : ReferenceSchema(o, n, TRUE)
    \/ ReferenceSchemaMemory
    \/ \E o \in ViewOffsets, n \in ViewLens : ViewReadSlice(o, n)
    \/ \E a \in ViewAddresses, n \in OptViewLengths : ViewReferenceMemory(a, n)
    \/ \E a \in ViewAddresses, n \in ViewLengths : ViewReadMemory(a, n)
    \/ \E a \in WrittenAddresses, b \in WrittenBytes : RemoteWrite(a, b)
    \/ DropHandle
    \/ Forget

SpecView == InitView /\ [][NextView]_vars

(***************************************************************************)
(* CS2Handle::read_string.  Its loop is followed one iteration at a time:  *)
(* rs holds the locals between two iterations.                             *)
(***************************************************************************)
\* str::from_utf8: the well-formed byte sequences of UTF-8.  Continuation
\* byte k of the scalar starting at i, which has to lie in lo..hi.
Utf8Cont(x, i, k, lo, hi) ==
    i + k <= BLen(x) /\ BAt(x, i + k) >= lo /\ BAt(x, i + k) <= hi

\* The width of the well-formed scalar starting at byte i, 0 without one.
Utf8Width(x, i) ==
    LET b == BAt(x, i)
        tail(k) == Utf8Cont(x, i, k, 128, 191)
    IN  IF b < 128 THEN 1
        ELSE IF b >= 194 /\ b <= 223 THEN (IF tail(1) THEN 2 ELSE 0)
        ELSE IF b = 224 THEN (IF Utf8Cont(x, i, 1, 160, 191) /\ tail(2) THEN 3 ELSE 0)
        ELSE IF b = 237 THEN (IF Utf8Cont(x, i, 1, 128, 159) /\ tail(2) THEN 3 ELSE 0)
        ELSE IF b >= 225 /\ b <= 239 THEN (IF tail(1) /\ tail(2) THEN 3 ELSE 0)
        ELSE IF b = 240
        THEN (IF Utf8Cont(x, i, 1, 144, 191) /\ tail(2) /\ tail(3) THEN 4 ELSE 0)
        ELSE IF b = 244
        THEN (IF Utf8Cont(x, i, 1, 128, 143) /\ tail(2) /\ tail(3) THEN 4 ELSE 0)
        ELSE IF b >= 241 /\ b <= 243 THEN (IF tail(1) /\ tail(2) /\ tail(3) THEN 4 ELSE 0)
        ELSE 0

RECURSIVE Utf8ValidFrom(_, _)
Utf8ValidFrom(x, i) ==
    IF i > BLen(x) THEN TRUE
    ELSE IF Utf8Width(x, i) = 0 THEN FALSE
    ELSE Utf8ValidFrom(x, i + Utf8Width(x, i))

Utf8Valid(x) == Utf8ValidFrom(x, 1)

\* CStr::from_bytes_until_nul(&buffer), then to_str.
CStrUntilNul(buffer) ==
    IF BFind(buffer, 0) = 0 THEN None
    ELSE Some(BSub(buffer, 1, BFind(buffer, 0) - 1))

ToStr(x) == IF Utf8Valid(x) THEN Ok(x) ELSE Err("invalid string contents")

DefaultStringLength == 8

StringGrowth == 8

\* expected_length += 8, as some other growth.
NextGuess_Doubling(n) == n * 2

NextGuess(n) == n + StringGrowth

\* What the iteration does with the answer r of its read_slice: the result
\* of read_string when it returns here, and the next guess when it loops.
ReadStringAfterRead(r, expected_length) ==
    IF r.res.tag = "err" THEN [res |-> Err("read_string"), next |-> expected_length]
    ELSE IF r.res.tag = "panic" THEN [res |-> r.res, next |-> expected_length]
    ELSE IF CStrUntilNul(r.res.val).some
    THEN [res |-> ToStr(CStrUntilNul(r.res.val).val), next |-> expected_length]
    ELSE [res |-> Running, next |-> NextGuess(expected_length)]

\* read_string is entered: expected_length.unwrap_or(8), an empty buffer.
ReadStringCall(module, offsets, expected_length) ==
    /\ last = NoCall
    /\ alive
    /\ rs' = [pc |-> "loop", module |-> module, offsets |-> offsets,
              expected_length |-> IF expected_length.some THEN expected_length.val
                                  ELSE DefaultStringLength,
              buffer |-> EmptyBytes]
    /\ last' = [op |-> "read_string", module |-> module, offsets |-> offsets,
                size |-> expected_length, res |-> Running]
    /\ chan' = <<>>
    /\ UNCHANGED <<mem, fill, build, module_info, alive, view, cr, rf>>

\* One iteration of the loop: resize, read_slice, look for the NUL.
ReadStringIteration ==
    /\ rs.pc = "loop"
    /\ rs.expected_length <= MaxStrRead
    /\ \E r \in {CS2_read_slice(rs.module, rs.offsets, rs.expected_length)} :
       \E a \in {ReadStringAfterRead(r, rs.expected_length)} :
          /\ chan' = chan \o r.reqs
          /\ last' = [last EXCEPT !.res = a.res]
          /\ rs' = [rs EXCEPT !.pc = IF a.res = Running THEN "loop" ELSE "done",
                              !.expected_length = a.next,
                              !.buffer = IF r.res.tag = "ok" THEN r.res.val ELSE @]
    /\ UNCHANGED <<mem, fill, build, module_info, alive, view, cr, rf>>

\* "abc\0" at address 0, a text with a 0xFF in it at 4 and one of 9 letters
\* at 11, both ending at the NUL at 20.
TextImage ==
    [a \in 0..(MemSize - 1) |->
        IF a = 3 \/ a = 20 THEN 0
        ELSE IF a = 10 THEN 255
        ELSE 97 + (a % 3)]

\* Texts beyond ASCII: "e-acute" (C3 A9) at 0, the euro sign (E2 82 AC) at 3
\* (its continuation bytes alone at 4), a surrogate (ED A0 80) at 11 and a
\* four byte scalar (F0 9F 98 80) at 24, each followed by a NUL.
Utf8Image ==
    [a \in 0..(MemSize - 1) |->
        IF a \in {2, 6, 14, 28} THEN 0
        ELSE IF a = 0 THEN 195 ELSE IF a = 1 THEN 169
        ELSE IF a = 3 THEN 226 ELSE IF a = 4 THEN 130 ELSE IF a = 5 THEN 172
        ELSE IF a = 11 THEN 237 ELSE IF a = 12 THEN 160 ELSE IF a = 13 THEN 128
        ELSE IF a = 24 THEN 240 ELSE IF a = 25 THEN 159
        ELSE IF a = 26 THEN 152 ELSE IF a = 27 THEN 128
        ELSE 97 + (a % 3)]

\* Letters only.
NoNulImage == [a \in 0..(MemSize - 1) |-> 65 + (a % 3)]

StringModules == {"Absolute", "Client"}

StringChains ==
    {<<U64FromNat(0)>>, <<U64FromNat(3)>>, <<U64FromNat(4)>>, <<U64FromNat(11)>>,
     <<U64FromNat(24)>>,
     <<U64FromNat(0), U64FromNat(16)>>}

StringHints == {None, Some(0), Some(4), Some(16)}

\* What the target writes while read_string runs: a pointer of ChainImage
\* (at 8) or a byte of a text (at 24) becomes a letter or a NUL.
StringWrittenBytes == {0, 97}

InitString ==
    /\ \/ mem = ChainImage /\ fill = 0
       \/ mem = TextImage /\ fill = 0
       \/ mem = Utf8Image /\ fill = 0
       \/ mem = NoNulImage /\ fill = 65
    /\ build \in {"debug", "release"}
    /\ module_info = ModuleTable
    /\ alive = TRUE
    /\ view = None
    /\ last = NoCall
    /\ chan = <<>>
    /\ rs = Idle
    /\ cr = Idle
    /\ rf = Idle

NextString ==
    \/ \E m \in StringModules, o \in StringChains, h \in StringHints :
          ReadStringCall(m, o, h)
    \/ ReadStringIteration
    \/ \E a \in WrittenAddresses, b \in StringWrittenBytes : RemoteWrite(a, b)
    \/ Forget

SpecString == InitString /\ [][NextString]_vars

(***************************************************************************)
(* The session: CS2Handle::create, followed one kernel request at a time   *)
(* (cr is its position), and the calls that use the module table.          *)
(***************************************************************************)
\* KernelInterface::find_pattern over [base, base + size): the first address
\* of the window the pattern matches at.  The window has to be readable.
PatternAt(a, pattern) == \A i \in 1..Len(pattern) : MemByte(a + i - 1) = pattern[i]

KeHits(base, size, pattern) ==
    {a \in base..(base + size - Len(pattern)) : PatternAt(a, pattern)}

KeFindPattern(base, size, pattern) ==
    IF ~(U64IsSmall(size) /\ Mapped(base, U64ToNat(size)))
    THEN [ok |-> FALSE, hit |-> None,
          req |-> [kind |-> "find_pattern", base |-> base, size |-> size,
                   ok |-> FALSE, hit |-> None]]
    ELSE \* the first match, if any
         LET hits == KeHits(U64ToNat(base), U64ToNat(size), pattern)
             hit  == IF hits = {} THEN None
                     ELSE Some(U64FromNat(CHOOSE a \in hits : \A b \in hits : a <= b))
         IN  [ok |-> TRUE, hit |-> hit,
              req |-> [kind |-> "find_pattern", base |-> base, size |-> size,
                       ok |-> TRUE, hit |-> hit]]

\* The answer k of the kernel, with its `?`, made module relative.
FindPatternResult(k, base) ==
    Ret(IF ~k.ok THEN Err("kernel find_pattern failed")
        ELSE IF k.hit.some THEN Ok(Some(U64SubWrapping(k.hit.val, base)))
        ELSE Ok(None),
        <<k.req>>)

\* find_pattern handing the absolute address back.
CS2_find_pattern_Absolute(module, pattern) ==
    LET bo == get_base_offset(module)
    IN  IF ~bo.some THEN Ret(Err("invalid module"), <<>>)
        ELSE FindPatternResult(
                 KeFindPattern(bo.val.base_address, bo.val.module_size, pattern),
                 U64Zero)

CS2_find_pattern(module, pattern) ==
    LET bo == get_base_offset(module)
    IN  IF ~bo.some THEN Ret(Err("invalid module"), <<>>)
        ELSE FindPatternResult(
                 KeFindPattern(bo.val.base_address, bo.val.module_size, pattern),
                 bo.val.base_address)

\* module_address: Option<u64> (a panic when base + size overflows with
\* overflow-checks).
CS2_module_address(module, address) ==
    LET bo == get_base_offset(module)
    IN  IF ~bo.some THEN Ret(Ok(None), <<>>)
        ELSE IF U64Less(address, bo.val.base_address) THEN Ret(Ok(None), <<>>)
        ELSE IF AddPanics(bo.val.base_address, bo.val.module_size)
        THEN Ret(OverflowPanic, <<>>)
        ELSE IF ~U64Less(address,
                         U64AddWrapping(bo.val.base_address, bo.val.module_size))
        THEN Ret(Ok(None), <<>>)
        ELSE Ret(Ok(Some(U64SubWrapping(address, bo.val.base_address))), <<>>)

CS2_memory_address(module, offset) ==
    LET bo == get_base_offset(module)
    IN  IF ~bo.some THEN Ret(Err("invalid module"), <<>>)
        ELSE IF AddPanics(bo.val.base_address, offset) THEN Ret(OverflowPanic, <<>>)
        ELSE Ret(Ok(U64AddWrapping(bo.val.base_address, offset)), <<>>)

FindPattern(module, pattern) ==
    /\ Call("find_pattern", module, pattern, Len(pattern),
            CS2_find_pattern(module, pattern))
    /\ UNCHANGED <<mem, fill, build, module_info, alive, view, rs, cr, rf>>

ModuleAddress(module, address) ==
    /\ Call("module_address", module, <<address>>, 0,
            CS2_module_address(module, address))
    /\ UNCHANGED <<mem, fill, build, module_info, alive, view, rs, cr, rf>>

MemoryAddress(module, offset) ==
    /\ Call("memory_address", module, <<offset>>, 0,
            CS2_memory_address(module, offset))
    /\ UNCHANGED <<mem, fill, build, module_info, alive, view, rs, cr, rf>>

\* protect_process: one more protection toggle, answered ok or not.
ProtectProcess(ok) ==
    /\ Call("protect_process", "Absolute", <<>>, 0,
            Ret(IF ok THEN Ok(TRUE) ELSE Err("kernel request failed"),
                <<[kind |-> "protection_toggle", enabled |-> TRUE, ok |-> ok]>>))
    /\ UNCHANGED <<mem, fill, build, module_info, alive, view, rs, cr, rf>>

\* The module table of a second target process.
ModuleTable2 ==
    [process_id   |-> 2,
     client       |-> [base_address |-> U64FromNat(24), module_size |-> U64FromNat(8)],
     engine       |-> [base_address |-> U64FromNat(0),  module_size |-> U64FromNat(32)],
     schemasystem |-> [base_address |-> U64FromNat(32), module_size |-> U64FromNat(4)]]

ModuleTables == {ModuleTable, ModuleTable2}

NoModuleInfo == [process_id |-> 0]

\* What the kernel may answer to RequestCSModule: the request fails, or it
\* is answered with something else than Success, or with a module table.
CsModuleAnswers ==
    {[ok |-> FALSE, response |-> "none"], [ok |-> TRUE, response |-> "error"]}
    \cup {[ok |-> TRUE, response |-> "success", info |-> t] : t \in ModuleTables}

\* create after its request at position pc was answered: where it goes on,
\* and what it returns when it returns here.
CreateStep_IgnoresToggle(pc, answer) ==
    IF pc = "start"
    THEN IF answer.ok THEN [pc |-> "opened", res |-> Running]
         ELSE [pc |-> "done", res |-> Err("KernelInterface::create failed")]
    ELSE IF pc = "opened"
    THEN [pc |-> "protected", res |-> Running]
    ELSE IF ~answer.ok
    THEN [pc |-> "done", res |-> Err("kernel request failed")]
    ELSE IF answer.response # "success"
    THEN [pc |-> "done", res |-> Err("failed to load module info")]
    ELSE [pc |-> "done", res |-> Ok(answer.info)]

CreateStep(pc, answer) ==
    IF pc = "start"
    THEN IF answer.ok THEN [pc |-> "opened", res |-> Running]
         ELSE [pc |-> "done", res |-> Err("KernelInterface::create failed")]
    ELSE IF pc = "opened"
    THEN IF answer.ok THEN [pc |-> "protected", res |-> Running]
         ELSE [pc |-> "done", res |-> Err("kernel request failed")]
    ELSE IF ~answer.ok
    THEN [pc |-> "done", res |-> Err("kernel request failed")]
    ELSE IF answer.response # "success"
    THEN [pc |-> "done", res |-> Err("failed to load module info")]
    ELSE [pc |-> "done", res |-> Ok(answer.info)]

\* The request at position pc was answered: create goes on or returns; the
\* handle exists once it returned Ok.
Created(pc, request, answer) ==
    \E c \in {CreateStep(pc, answer)} :
        /\ cr' = [pc |-> c.pc]
        /\ last' = [op |-> "create", res |-> c.res]
        /\ chan' = Append(chan, request)
        /\ alive' = (c.res.tag = "ok")
        /\ module_info' = IF c.res.tag = "ok" THEN c.res.val ELSE module_info

\* KernelInterface::create(..)?
CreateOpen(ok) ==
    /\ last = NoCall
    /\ ~alive
    /\ cr.pc \in {"idle", "done"}
    /\ Created("start", [kind |-> "open", ok |-> ok], [ok |-> ok])
    /\ UNCHANGED <<mem, fill, build, view, rs, rf>>

\* interface.execute_request(&RequestProtectionToggle{ enabled: true })?
CreateProtect(ok) ==
    /\ cr.pc = "opened"
    /\ Created("opened", [kind |-> "protection_toggle", enabled |-> TRUE, ok |-> ok],
               [ok |-> ok])
    /\ UNCHANGED <<mem, fill, build, view, rs, rf>>

\* interface.execute_request::<RequestCSModule>(..)? and the match on it
CreateModuleInfo(answer) ==
    /\ cr.pc = "protected"
    /\ Created("protected",
               [kind |-> "cs_module", ok |-> answer.ok, response |-> answer.response],
               answer)
    /\ UNCHANGED <<mem, fill, build, view, rs, rf>>

Patterns == {<<97, 98>>, <<99, 0>>, <<0>>, <<16>>, <<255>>}

SessionAddresses == {U64FromNat(0), U64FromNat(8), U64FromNat(23), U64FromNat(24), U64_MAX}

InitSession ==
    /\ mem = ChainImage
    /\ fill = 0
    /\ build \in {"debug", "release"}
    /\ module_info = NoModuleInfo
    /\ alive = FALSE
    /\ view = None
    /\ last = NoCall
    /\ chan = <<>>
    /\ rs = Idle
    /\ cr = Idle
    /\ rf = Idle

NextSession ==
    \/ \E ok \in BOOLEAN : CreateOpen(ok)
    \/ \E ok \in BOOLEAN : CreateProtect(ok)
    \/ \E a \in CsModuleAnswers : CreateModuleInfo(a)
    \/ \E m \in Module, p \in Patterns : FindPattern(m, p)
    \/ \E m \in Module, a \in SessionAddresses : ModuleAddress(m, a)
    \/ \E m \in Module, a \in SessionAddresses : MemoryAddress(m, a)
    \/ \E ok \in BOOLEAN : ProtectProcess(ok)
    \/ DropHandle
    \/ Forget

SpecSession == InitSession /\ [][NextSession]_vars

(***************************************************************************)
(* Properties of the view runs (SpecView).                                 *)
(***************************************************************************)
ViewOps == {"view_read_slice", "view_reference_memory", "view_read_memory"}

\* The call the caller is looking at was made through the held handle.
\* C1, as stated: once CS2Handle is dropped, every call through a memory
\* handle made from it (read_slice, reference_memory, read_memory; cached
\* and reference) fails with "cs2 handle has been dropped".
C1_AllCallsFailDropped ==
    (last.op \in ViewOps /\ last.dropped) => last.res = HandleDropped

\* offset + len lies within the buffer of the held cached handle.
InBuffer(offset, len) ==
    /\ ~U64AddOverflows(offset, U64FromNat(len))
    /\ U64LessEq(U64AddWrapping(offset, U64FromNat(len)),
                 U64FromNat(BLen(view.val.buffer)))

\* C1, amended: once CS2Handle is dropped, the three calls on a reference
\* handle, and reference_memory and read_memory on a cached handle, fail
\* with "cs2 handle has been dropped" and issue no kernel request;
\* read_slice on a cached handle never consults the session: it still
\* copies out of its own buffer.
C1_DroppedHandle ==
    (last.op \in ViewOps /\ last.dropped) =>
        /\ chan = <<>>
        /\ IF last.kind = "cached" /\ last.op = "view_read_slice"
           THEN /\ last.res # HandleDropped
                /\ InBuffer(last.arg, last.size) =>
                       last.res = Ok(BSub(view.val.buffer, U64ToNat(last.arg) + 1,
                                          U64ToNat(last.arg) + last.size))
           ELSE last.res = HandleDropped

C1_Witness ==
    /\ last.op = "view_read_slice"
    /\ last.dropped
    /\ last.kind = "reference"
    /\ last.res = HandleDropped

\* C2, as stated: reference_memory with a length <= 65536 yields a cached
\* (snapshot) handle, with a length > 65536 a reference (live) handle.
C2_Boundary65536 ==
    (/\ last.op = "view_reference_memory"
     /\ ~last.dropped
     /\ last.size.some
     /\ last.res.tag = "ok")
    => (last.size.val <= 65536 <=> last.res.val.kind = "cached")

\* C2, amended: with a length <= 65535 reference_memory reads that many
\* bytes at the address once and yields a cached handle over them (or the
\* read's error); with a length >= 65536, or without a length, it issues
\* no read and yields a reference handle at the address.
C2_Threshold65535 ==
    (last.op = "view_reference_memory" /\ ~last.dropped) =>
        IF last.size.some /\ last.size.val <= 65535
        THEN /\ Len(chan) = 1
             /\ chan[1].len = last.size.val
             /\ chan[1].addr = last.arg
             /\ last.res.tag \in {"ok", "err"}
             /\ last.res.tag = "ok" =>
                    /\ last.res.val.kind = "cached"
                    /\ BLen(last.res.val.buffer) = last.size.val
        ELSE /\ chan = <<>>
             /\ last.res = Ok(CSMemoryHandleReference(last.arg))

C2_Witness ==
    /\ last.op = "view_reference_memory"
    /\ last.size = Some(65535)
    /\ last.res.tag = "ok"
    /\ last.res.val.kind = "cached"
    /\ BLen(last.res.val.buffer) = 65535

\* C3: a member access on the value reference_schema returned reads the
\* remote bytes as they are at the time of the access.
C3_AccessReadsCurrentBytes ==
    (/\ last.op = "view_read_slice"
     /\ last.origin = "reference_schema"
     /\ ~last.dropped
     /\ last.res.tag = "ok")
    => /\ Mapped(U64AddWrapping(last.at, last.arg), last.size)
       /\ last.res.val = RemoteBytes(U64AddWrapping(last.at, last.arg), last.size)

\* C9: read_slice of a cached handle copies buffer[offset .. offset + len]
\* without a kernel request when offset + len <= buffer length, and fails
\* with "invalid offset" for every other offset and length.
C9_BoundsChecked ==
    (last.op = "view_read_slice" /\ last.kind = "cached") =>
        /\ chan = <<>>
        /\ IF InBuffer(last.arg, last.size)
           THEN last.res = Ok(BSub(view.val.buffer, U64ToNat(last.arg) + 1,
                                   U64ToNat(last.arg) + last.size))
           ELSE last.res = Err("invalid offset")

(***************************************************************************)
(* Properties of the chain runs (SpecChain).                               *)
(***************************************************************************)
RawReads == {"read", "read_slice", "read_vec"}

\* The u64 at a mapped remote address.
Deref(a) == U64FromLeBytes(RemoteBytes(a, 8))

BaseOf(module) == get_base_offset(module).val.base_address

\* The address the value reference_schema returned is built over.
WrappedAddress ==
    IF last.res.val.memory.kind = "reference"
    THEN last.res.val.memory.address
    ELSE chan[Len(chan)].addr

\* C4: a chain <<A, B, C>> is read at *(*(base + A) + B) + C, the first two
\* sums being dereferenced in that order and the last not; a chain <<A>> is
\* read at base + A without a dereference; reference_schema wraps that
\* same address (its base being 0, like read_schema's).
C4_ChainResolution ==
    /\ (last.op \in RawReads \cup {"read_schema"} /\ Len(chan) = 1 /\ chan[1].resolved) =>
          /\ Len(last.offsets) = 1 =>
                /\ chan[1].addr = U64AddWrapping(BaseOf(last.module), last.offsets[1])
                /\ chan[1].derefs = <<>>
          /\ Len(last.offsets) = 3 =>
                LET a1 == U64AddWrapping(BaseOf(last.module), last.offsets[1])
                    a2 == U64AddWrapping(Deref(a1), last.offsets[2])
                IN  /\ chan[1].derefs = <<a1, a2>>
                    /\ chan[1].addr = U64AddWrapping(Deref(a2), last.offsets[3])
    /\ (last.op = "reference_schema" /\ last.res.tag = "ok") =>
          /\ Len(last.offsets) = 1 =>
                /\ WrappedAddress = last.offsets[1]
                /\ \A i \in 1..Len(chan) : chan[i].derefs = <<>>
          /\ Len(last.offsets) = 3 =>
                WrappedAddress =
                    U64AddWrapping(
                        Deref(U64AddWrapping(Deref(last.offsets[1]), last.offsets[2])),
                        last.offsets[3])

C4_Witness ==
    /\ last.op = "reference_schema"
    /\ last.offsets = <<U64FromNat(0), U64FromNat(8), U64FromNat(1)>>
    /\ last.res.tag = "ok"
    /\ last.res.val.memory = CSMemoryHandleReference(U64FromNat(25))

\* C6, as stated: for every module and chain <<A>>, read::<T> and
\* read_schema::<T> read the same address and return the same bytes.
C6_ReadEqualsReadSchema ==
    (last.op = "read" /\ Len(last.offsets) = 1 /\ last.res.tag = "ok") =>
        \A s \in {CS2_read_schema(last.offsets, Some(last.size))} :
            /\ s.res.tag = "ok"
            /\ s.reqs[1].addr = chan[1].addr
            /\ s.res.val.memory.buffer = last.res.val

\* C6, amended: for a chain <<A>>, read::<T>(module, ..) reads at
\* base(module) + A and read_schema::<T>, which takes no module, at A; with
\* Module::Absolute the two read the same address and return the same bytes.
C6_AbsoluteReadEqualsReadSchema ==
    (last.op = "read" /\ Len(last.offsets) = 1 /\ last.res.tag = "ok") =>
        \A s \in {CS2_read_schema(last.offsets, Some(last.size))} :
            /\ chan[1].addr = U64AddWrapping(BaseOf(last.module), last.offsets[1])
            /\ Len(s.reqs) = 1
            /\ s.reqs[1].addr = last.offsets[1]
            /\ s.reqs[1].len = chan[1].len
            /\ last.module = "Absolute" =>
                  /\ s.res.tag = "ok"
                  /\ s.reqs[1].addr = chan[1].addr
                  /\ s.res.val.memory.buffer = last.res.val

C6_Witness ==
    /\ last.op = "read"
    /\ last.module = "Absolute"
    /\ last.offsets = <<U64FromNat(8)>>
    /\ last.size = 8
    /\ last.res = Ok(BytesOf(<<16, 0, 0, 0, 0, 0, 0, 0>>))

\* C8: read and read_slice return an error, without a panic and without a
\* kernel request, for an empty chain, and an error when the kernel read
\* fails.
C8_EmptyChainIsAnError ==
    (last.op \in {"read", "read_slice"}) =>
        /\ Len(last.offsets) = 0 => (last.res.tag = "err" /\ chan = <<>>)
        /\ (chan # <<>> /\ ~chan[1].ok) => last.res.tag = "err"

(***************************************************************************)
(* Properties of the string runs (SpecString).                             *)
(***************************************************************************)
FirstGuess == IF last.size.some THEN last.size.val ELSE 8

\* The bytes the last read of the call was answered with (the target has
\* not run since the call returned).
ReadBytes(i) == RemoteBytes(chan[i].addr, chan[i].len)

\* read_string's buffer holds no NUL.
NoNulIn(buffer) == BFind(buffer, 0) = 0

\* The lengths of the reads, and what the call does with the last of them:
\* every read but the last succeeded; while the call runs, the last one
\* succeeded too and its bytes hold no NUL; once it has returned, the last
\* read failed (the error is returned) or its bytes hold a NUL, and the
\* result is the text before the first NUL (the decoding error when that is
\* not UTF-8).
ReadStringLoop ==
    /\ \A i \in 1..Len(chan) :
          /\ chan[i].kind = "read"
          /\ chan[i].len = FirstGuess + 8 * (i - 1)
          /\ chan[i].offsets = chan[1].offsets
          /\ i < Len(chan) => chan[i].ok
    /\ last.res = Running =>
          /\ Len(chan) > 0 => chan[Len(chan)].ok
          /\ NoNulIn(rs.buffer)
          /\ BLen(rs.buffer) = (IF Len(chan) = 0 THEN 0 ELSE chan[Len(chan)].len)
    /\ last.res # Running =>
          /\ last.res.tag \in {"ok", "err"}
          /\ Len(chan) >= 1
          /\ IF ~chan[Len(chan)].ok THEN last.res = Err("read_string")
             ELSE /\ rs.buffer = ReadBytes(Len(chan))
                  /\ ~NoNulIn(rs.buffer)
                  /\ \A t \in {BSub(rs.buffer, 1, BFind(rs.buffer, 0) - 1)} :
                        last.res = IF Utf8Valid(t)
                                   THEN Ok(t)
                                   ELSE Err("invalid string contents")

\* C7, as stated: read_string with hint h (8 without one) reads h, h + 8,
\* h + 16, .. bytes, all from the same resolved address, and returns the
\* text before the first NUL at the first read that holds one; without a
\* NUL and without a failing read it does not return.
C7_SameAddress ==
    (last.op = "read_string") =>
        /\ ReadStringLoop
        /\ \A i \in 1..Len(chan) : chan[i].addr = chan[1].addr

\* C7, amended: read_string with hint h (8 without one) reads h, h + 8,
\* h + 16, .. bytes, each read with the same module and offset chain, which
\* is resolved again by every read: from the same address when the chain has
\* one offset (nothing is dereferenced).  It returns the text before the
\* first NUL at the first read that holds one, and without a NUL and
\* without a failing read it does not return.
C7_ReadString ==
    (last.op = "read_string") =>
        /\ ReadStringLoop
        /\ Len(last.offsets) = 1 =>
              \A i \in 1..Len(chan) :
                 /\ chan[i].derefs = <<>>
                 /\ chan[i].addr = U64AddWrapping(BaseOf(last.module), last.offsets[1])

\* The target moved the text between two reads: the pointer at 8 was
\* changed, and the second read went to another address than the first.
C7_WitnessMoved ==
    /\ last.op = "read_string"
    /\ last.res.tag = "ok"
    /\ Len(chan) = 2
    /\ chan[1].addr # chan[2].addr

\* "abc\0" at address 0, no hint: "abc" after exactly one read of 8 bytes.
C7_Witness ==
    /\ last.op = "read_string"
    /\ mem = TextImage
    /\ last.module = "Absolute"
    /\ last.offsets = <<U64FromNat(0)>>
    /\ last.size = None
    /\ last.res = Ok(BytesOf(<<97, 98, 99>>))
    /\ Len(chan) = 1
    /\ chan[1].len = 8

\* A call that has read four times without finding a NUL and is still running.
C7_WitnessNoNul ==
    /\ last.op = "read_string"
    /\ last.res = Running
    /\ Len(chan) = 4

\* "e-acute" and the four byte scalar are returned as texts.
C7_WitnessUtf8 ==
    /\ last.op = "read_string"
    /\ mem = Utf8Image
    /\ last.module = "Absolute"
    /\ last.res \in {Ok(BytesOf(<<195, 169>>)), Ok(BytesOf(<<240, 159, 152, 128>>))}

\* A call that returned at its third read.
C7_WitnessGrown ==
    /\ last.op = "read_string"
    /\ last.res.tag = "ok"
    /\ Len(chan) = 3

(***************************************************************************)
(* Properties of the session runs (SpecSession).                           *)
(***************************************************************************)
\* C5: an offset o returned by find_pattern(module, ..) has base + o within
\* [base, base + size) of the module; when the kernel reports no match the
\* call returns Ok(None), not an error.
C5_FindPattern ==
    (last.op = "find_pattern") =>
        /\ (last.res.tag = "ok" /\ last.res.val.some) =>
              \A m \in {get_base_offset(last.module).val} :
                 /\ ~U64AddOverflows(m.base_address, last.res.val.val)
                 /\ U64LessEq(m.base_address,
                              U64AddWrapping(m.base_address, last.res.val.val))
                 /\ U64Less(U64AddWrapping(m.base_address, last.res.val.val),
                            U64AddWrapping(m.base_address, m.module_size))
        /\ (Len(chan) = 1 /\ chan[1].ok /\ ~chan[1].hit.some) => last.res = Ok(None)

\* "ab" is found at 24, that is at offset 8 of the engine module at 16.
C5_Witness ==
    /\ last.op = "find_pattern"
    /\ last.module = "Engine"
    /\ module_info = ModuleTable
    /\ last.offsets = <<97, 98>>
    /\ last.res = Ok(Some(U64FromNat(8)))

C5_WitnessNotFound ==
    /\ last.op = "find_pattern"
    /\ last.offsets = <<255>>
    /\ last.res = Ok(None)

Kinds(log) == [i \in 1..Len(log) |-> log[i].kind]

\* C10: create issues its requests in the order open, protection toggle,
\* module info, each at most once and each only after the one before it
\* succeeded; it returns a handle exactly when all three succeeded (the
\* module info being the table the kernel sent), and an error, without a
\* handle, as soon as one fails.
C10_Create ==
    (last.op = "create") =>
        /\ Kinds(chan) = SubSeq(<<"open", "protection_toggle", "cs_module">>, 1, Len(chan))
        /\ Len(chan) >= 1
        /\ \A i \in 1..(Len(chan) - 1) : chan[i].ok
        /\ last.res = Running =>
              /\ chan[Len(chan)].ok
              /\ Len(chan) < 3
              /\ ~alive
        /\ last.res.tag = "err" =>
              /\ ~alive
              /\ \/ ~chan[Len(chan)].ok
                 \/ Len(chan) = 3 /\ chan[3].response # "success"
        /\ last.res.tag = "ok" =>
              /\ alive
              /\ Len(chan) = 3
              /\ chan[3].ok
              /\ chan[3].response = "success"
              /\ module_info = last.res.val
              /\ module_info \in ModuleTables
        /\ last.res.tag \in {"running", "ok", "err"}
        /\ alive => last.res.tag = "ok"

C10_Witness ==
    /\ last.op = "create"
    /\ last.res.tag = "ok"
    /\ alive
    /\ Len(chan) = 3

\* create gave up at a rejected protection toggle.
C10_WitnessRejected ==
    /\ last.op = "create"
    /\ last.res.tag = "err"
    /\ Len(chan) = 2
    /\ ~chan[2].ok
    /\ ~alive

====
